---- MODULE Spec2Model ----
(***************************************************************************)
(* PoolFansTokenizer (src/src/PoolFansTokenizer.ts): one SDK instance      *)
(* serving one call at a time.  The two collaborators, publicClient        *)
(* (readContract) and walletClient (writeContract), are the environment:   *)
(* every call made to them is appended to the log `net`, and each pending  *)
(* call is settled by a separate environment step, so that the order of    *)
(* requests and responses is part of the state.                            *)
(*                                                                         *)
(* Addresses are symbolic terms: <<"eoa", x>> for externally owned         *)
(* accounts, <<"contract", x>> for the constants of src/src/constants.ts,  *)
(* <<"create2", ...>> for a predicted token address and <<"vault", ...>>   *)
(* for what the factory's view function computeVaultAddress answers.       *)
(* bigint values are decimal digit sequences, most significant first.      *)
(***************************************************************************)
EXTENDS Integers, Sequences, FiniteSets, TLC

\* ------------------------------------------------------------------------
\* Bounds of the model
\* ------------------------------------------------------------------------
MaxRecipients == 8
MaxCalls == 3
TokPeriod == 3

\* ------------------------------------------------------------------------
\* Program constants
\* ------------------------------------------------------------------------
BPS_TOTAL == 10000
MAX_RECIPIENTS == 7
ETHER_DECIMALS == 18

V4_TOKENIZER == <<"contract", "V4_TOKENIZER">>
V3_1_0_TOKENIZER == <<"contract", "V3_1_0_TOKENIZER">>
WETH == <<"contract", "WETH">>
V4_HOOK == <<"contract", "V4_HOOK">>
MEV_MODULE == <<"contract", "MEV_MODULE">>
TICK_SPACING == 200
DEFAULT_TICK == 0 - 230400
FEE_LOCKER == <<"contract", "FEE_LOCKER">>
DEV_BUY_EXTENSION == <<"contract", "DEV_BUY_EXTENSION">>
CLANKER_DEPLOYER == <<"contract", "CLANKER_DEPLOYER">>

TokenType == {"Both", "Paired", "Clanker"}

\* ------------------------------------------------------------------------
\* Input domains
\* ------------------------------------------------------------------------
Users == <<(<<"eoa", "user1">>), (<<"eoa", "user2">>)>>
Admins == <<(<<"eoa", "admin1">>), (<<"eoa", "admin2">>)>>
TokenAdmins == {<<"eoa", "admin1">>, <<"eoa", "deployer">>}
PairedTokens == {<<"contract", "USDC">>}
ExistingTokens == {<<"contract", "token1">>, <<"contract", "token2">>}
Nonces == {"nonce1", "nonce2"}
TxHashes == {"0xhash1", "0xhash2"}
ReadErrors == {"rpc read failed"}
WriteErrors == {"Insufficient funds", "Network error"}
PendingIds == {<<0>>, <<1, 2, 3>>}
ClaimVaults == {<<"contract", "vault1">>, <<"contract", "vault2">>}
Totals == {5000, 10000, 13000}
Skews == {0, 1000}
\* devBuy.ethAmount, a JS number, counted in units of 1e-7 ETH
EthAmounts == {0, 1, 5000000, 12500000}
Versions == {"v4", "v3.1.0"}

\* An optional field (devBuy?, pool?) is <<>> when absent and <<v>> when given
Absent == <<>>
Some(v) == <<v>>

\* ------------------------------------------------------------------------
\* Errors and results
\* ------------------------------------------------------------------------
NoError == [name |-> "undefined", message |-> <<"", <<>>>>]
Err(text, nums) == [name |-> "Error", message |-> <<text, nums>>]
InvalidDecimalNumberError == [name |-> "InvalidDecimalNumberError", message |-> <<"Number is not a valid decimal number.", <<>>>>]

NoResult == [txHash |-> "", error |-> NoError, waitForTransaction |-> [throws |-> NoError]]
Failure(error, waitError) == [txHash |-> "0x", error |-> error, waitForTransaction |-> [throws |-> waitError]]
Success(txHash) == [txHash |-> txHash, error |-> NoError, waitForTransaction |-> [throws |-> NoError]]

\* ------------------------------------------------------------------------
\* Pure helpers
\* ------------------------------------------------------------------------
\* options.rewards.recipients.reduce((sum, r) => sum + r.bps, 0)
RECURSIVE ReduceBps(_, _, _)
ReduceBps(recipients, i, sum) ==
  IF i > Len(recipients) THEN sum
  ELSE ReduceBps(recipients, i + 1, sum + recipients[i].bps)

\* variant: the reduction starts at the second recipient
TotalBps_SkipsFirst(recipients) == ReduceBps(recipients, 2, 0)

TotalBps(recipients) == ReduceBps(recipients, 1, 0)

tokenTypeToFeePreference(token) ==
  CASE token = "Both" -> "FeePreference.Both"
    [] token = "Paired" -> "FeePreference.Paired"
    [] token = "Clanker" -> "FeePreference.Clanker"
    [] OTHER -> "FeePreference.Both"

tokenTypeToUint8(token) ==
  CASE token = "Both" -> 0
    [] token = "Paired" -> 1
    [] token = "Clanker" -> 2
    [] OTHER -> 0

\* decimal digits of a natural number, most significant first
RECURSIVE Digits(_)
Digits(k) == IF k < 10 THEN <<k>> ELSE Append(Digits(k \div 10), k % 10)

RECURSIVE StripTrailingZeros(_)
StripTrailingZeros(ds) ==
  IF ds = <<>> THEN ds
  ELSE IF ds[Len(ds)] = 0 THEN StripTrailingZeros(SubSeq(ds, 1, Len(ds) - 1))
  ELSE ds

RECURSIVE StripLeadingZeros(_)
StripLeadingZeros(ds) ==
  IF Len(ds) <= 1 THEN ds
  ELSE IF ds[1] = 0 THEN StripLeadingZeros(Tail(ds))
  ELSE ds

RECURSIVE PadStart(_, _)
PadStart(ds, len) == IF Len(ds) >= len THEN ds ELSE PadStart(<<0>> \o ds, len)

RECURSIVE PadEnd(_, _)
PadEnd(ds, len) == IF Len(ds) >= len THEN ds ELSE PadEnd(Append(ds, 0), len)

\* Number.prototype.toString of an amount of n * 1e-7 ETH: values below 1e-6
\* print in exponent notation ("1e-7"), the others as integer[.fraction]
NumberToString(n) ==
  IF n > 0 /\ n < 10
    THEN [exponent |-> TRUE, integer |-> <<n>>, fraction |-> <<>>]
    ELSE [exponent |-> FALSE,
          integer |-> Digits(n \div 10000000),
          fraction |-> StripTrailingZeros(PadStart(Digits(n % 10000000), 7))]

\* viem parseEther(str): a string that is not a plain decimal number throws;
\* otherwise the fraction is padded to 18 digits and BigInt(integer ++ fraction)
parseEther(str) ==
  IF str.exponent
    THEN [ok |-> FALSE, error |-> InvalidDecimalNumberError, value |-> <<0>>]
    ELSE [ok |-> TRUE, error |-> NoError,
          value |-> StripLeadingZeros(str.integer \o PadEnd(str.fraction, ETHER_DECIMALS))]

\* options.devBuy?.ethAmount is truthy
HasDevBuy(options) == options.devBuy # Absent /\ options.devBuy[1].ethAmount # 0

\* keccak256(encodeAbiParameters('address, bytes32', [tokenAdmin, randomSalt]))
computedSalt(tokenAdmin, randomSalt) == <<"keccak256", tokenAdmin, randomSalt>>

computeClankerAddress(name, symbol, tokenAdmin, image, randomSalt) ==
  <<"create2", CLANKER_DEPLOYER, computedSalt(tokenAdmin, randomSalt),
    <<"initCodeHash", name, symbol, tokenAdmin, image>>>>

\* the factory's view function computeVaultAddress: an address determined by
\* its three arguments
FactoryVault(args) == <<"vault", args[1], args[2], args[3]>>

encodeLockerData(feePreferences) == <<"lockerData", feePreferences>>

\* POOL_POSITIONS of constants.ts
POOL_POSITIONS ==
  [Standard |->
     <<[tickLower |-> -230400, tickUpper |-> -214200, positionBps |-> 1000],
       [tickLower |-> -214200, tickUpper |-> -160000, positionBps |-> 5000],
       [tickLower |-> -160000, tickUpper |-> -120000, positionBps |-> 1500],
       [tickLower |-> -120000, tickUpper |-> -92100, positionBps |-> 2000],
       [tickLower |-> -92100, tickUpper |-> -60000, positionBps |-> 500]>>,
   Project |->
     <<[tickLower |-> -230400, tickUpper |-> -200000, positionBps |-> 500],
       [tickLower |-> -200000, tickUpper |-> -160000, positionBps |-> 2500],
       [tickLower |-> -160000, tickUpper |-> -120000, positionBps |-> 4000],
       [tickLower |-> -120000, tickUpper |-> -100000, positionBps |-> 2000],
       [tickLower |-> -100000, tickUpper |-> -80000, positionBps |-> 1000]>>,
   Legacy |->
     <<[tickLower |-> -887200, tickUpper |-> 887200, positionBps |-> 10000]>>]

\* encodePoolDataV2(): the dynamic fee data, the same for every call
encodePoolDataV2 ==
  [extension |-> <<"contract", "zero">>, extensionData |-> "0x",
   feeData |-> <<100 * 100, 500 * 100, 30, 120, 200, 500000000, 7500>>]

\* encodeMevModuleData(): the sniper auction data, the same for every call
encodeMevModuleData == <<666777, 41673, 15>>

encodeDevBuyData(recipient) == [amountOutMinimum |-> <<0>>, recipient |-> recipient]

\* ------------------------------------------------------------------------
\* Validation (the early returns of the two operations)
\* ------------------------------------------------------------------------
\* variant: the count check is missing
DeployValidation_NoCountCheck(recipients) ==
  LET totalBps == TotalBps(recipients) IN
  IF totalBps # BPS_TOTAL
    THEN Failure(Err("Recipient bps must sum to 10000, got ", <<totalBps>>),
                 Err("Invalid bps total", <<>>))
  ELSE NoResult

\* variant: the count check rejects a list of exactly 7
DeployValidation_RejectsSeven(recipients) ==
  LET totalBps == TotalBps(recipients) IN
  IF totalBps # BPS_TOTAL
    THEN Failure(Err("Recipient bps must sum to 10000, got ", <<totalBps>>),
                 Err("Invalid bps total", <<>>))
  ELSE IF Len(recipients) >= MAX_RECIPIENTS
    THEN Failure(Err("Maximum 7 reward recipients allowed", <<>>),
                 Err("Too many recipients", <<>>))
  ELSE NoResult

\* variant: the count is checked before the sum
DeployValidation_CountFirst(recipients) ==
  LET totalBps == TotalBps(recipients) IN
  IF Len(recipients) > MAX_RECIPIENTS
    THEN Failure(Err("Maximum 7 reward recipients allowed", <<>>),
                 Err("Too many recipients", <<>>))
  ELSE IF totalBps # BPS_TOTAL
    THEN Failure(Err("Recipient bps must sum to 10000, got ", <<totalBps>>),
                 Err("Invalid bps total", <<>>))
  ELSE NoResult

\* deployWithTokenizedFees: NoResult when both checks pass
DeployValidation(recipients) ==
  LET totalBps == TotalBps(recipients) IN
  IF totalBps # BPS_TOTAL
    THEN Failure(Err("Recipient bps must sum to 10000, got ", <<totalBps>>),
                 Err("Invalid bps total", <<>>))
  ELSE IF Len(recipients) > MAX_RECIPIENTS
    THEN Failure(Err("Maximum 7 reward recipients allowed", <<>>),
                 Err("Too many recipients", <<>>))
  ELSE NoResult

\* variant: only a sum below 10000 is rejected
InitValidation_OnlyUnder(recipients) ==
  LET totalBps == TotalBps(recipients) IN
  IF totalBps < BPS_TOTAL
    THEN Failure(Err("Recipient bps must sum to 10000, got ", <<totalBps>>),
                 Err("Invalid bps", <<>>))
  ELSE NoResult

\* initTokenization: NoResult when its check passes
InitValidation(recipients) ==
  LET totalBps == TotalBps(recipients) IN
  IF totalBps # BPS_TOTAL
    THEN Failure(Err("Recipient bps must sum to 10000, got ", <<totalBps>>),
                 Err("Invalid bps", <<>>))
  ELSE NoResult

\* ------------------------------------------------------------------------
\* buildDeployParamsAsync, the parts around its reads
\* ------------------------------------------------------------------------
\* variant: one entry per distinct preference, in order of first appearance
feePreferencesOf_Distinct(options) ==
  LET all == [i \in 1..Len(options.rewards.recipients) |->
                tokenTypeToFeePreference(options.rewards.recipients[i].token)]
  IN SelectSeq([i \in 1..Len(all) |->
                  IF \E j \in 1..(i - 1) : all[j] = all[i] THEN "" ELSE all[i]],
               LAMBDA p : p # "")

feePreferencesOf(options) ==
  [i \in 1..Len(options.rewards.recipients) |->
     tokenTypeToFeePreference(options.rewards.recipients[i].token)]

pairedTokenOf(options) ==
  IF options.pool # Absent /\ options.pool[1].pairedToken # Absent
    THEN options.pool[1].pairedToken[1]
    ELSE WETH

\* options.pool?.positions || POOL_POSITIONS.Standard
positionsOf(options) ==
  IF options.pool # Absent /\ options.pool[1].positions # Absent
    THEN options.pool[1].positions[1]
    ELSE POOL_POSITIONS.Standard

\* options.pool?.tickIfToken0IsClanker || -230400
tickIfToken0IsClankerOf(options) ==
  IF /\ options.pool # Absent
     /\ options.pool[1].tickIfToken0IsClanker # Absent
     /\ options.pool[1].tickIfToken0IsClanker[1] # 0
    THEN options.pool[1].tickIfToken0IsClanker[1]
    ELSE DEFAULT_TICK

\* variant: a static fee policy of the caller replaces the base fee
poolConfigOf_FromFeePolicy(options) ==
  [hook |-> V4_HOOK,
   pairedToken |-> pairedTokenOf(options),
   tickIfToken0IsClanker |-> tickIfToken0IsClankerOf(options),
   tickSpacing |-> TICK_SPACING,
   poolData |->
     IF options.fees # Absent /\ options.fees[1].type = "static"
       THEN [encodePoolDataV2 EXCEPT !.feeData[1] = options.fees[1].clankerFee * 100]
       ELSE encodePoolDataV2]

poolConfigOf(options) ==
  [hook |-> V4_HOOK,
   pairedToken |-> pairedTokenOf(options),
   tickIfToken0IsClanker |-> tickIfToken0IsClankerOf(options),
   tickSpacing |-> TICK_SPACING,
   poolData |-> encodePoolDataV2]

\* variant: the bps are listed last recipient first
lockerConfigOf_ReversedBps(options, vaults) ==
  [locker |-> FEE_LOCKER,
   rewardAdmins |-> vaults,
   rewardRecipients |-> vaults,
   rewardBps |-> [i \in 1..Len(options.rewards.recipients) |->
                    options.rewards.recipients[Len(options.rewards.recipients) + 1 - i].bps],
   tickLower |-> [i \in 1..Len(positionsOf(options)) |-> positionsOf(options)[i].tickLower],
   tickUpper |-> [i \in 1..Len(positionsOf(options)) |-> positionsOf(options)[i].tickUpper],
   positionBps |-> [i \in 1..Len(positionsOf(options)) |-> positionsOf(options)[i].positionBps],
   lockerData |-> encodeLockerData(feePreferencesOf(options))]

lockerConfigOf(options, vaults) ==
  [locker |-> FEE_LOCKER,
   rewardAdmins |-> vaults,
   rewardRecipients |-> vaults,
   rewardBps |-> [i \in 1..Len(options.rewards.recipients) |->
                    options.rewards.recipients[i].bps],
   tickLower |-> [i \in 1..Len(positionsOf(options)) |-> positionsOf(options)[i].tickLower],
   tickUpper |-> [i \in 1..Len(positionsOf(options)) |-> positionsOf(options)[i].tickUpper],
   positionBps |-> [i \in 1..Len(positionsOf(options)) |-> positionsOf(options)[i].positionBps],
   lockerData |-> encodeLockerData(feePreferencesOf(options))]

mevModuleConfigOf == [mevModule |-> MEV_MODULE, mevModuleData |-> encodeMevModuleData]

\* variant: the address is predicted from a second draw of generateSalt()
clankerAddressOf_SecondDraw(options, randomSalt) ==
  computeClankerAddress(options.name, options.symbol, options.tokenAdmin,
                        options.image, "nonce3")

clankerAddressOf(options, randomSalt) ==
  computeClankerAddress(options.name, options.symbol, options.tokenAdmin,
                        options.image, randomSalt)

\* computeVaultAddressOnChain(clankerAddress, pairedToken, feePreferences[i])
VaultRead(options, randomSalt, i) ==
  [ev |-> "readContract", address |-> V4_TOKENIZER,
   functionName |-> "computeVaultAddress",
   args |-> <<clankerAddressOf(options, randomSalt), pairedTokenOf(options),
              feePreferencesOf(options)[i]>>]

\* variant: the reward fields take the recipients' own admin and recipient
BuildDeployParams_EndUserRewards(options, randomSalt, vaults) ==
  [ok |-> TRUE,
   error |-> NoError,
   config |->
     [tokenConfig |-> [tokenAdmin |-> options.tokenAdmin, name |-> options.name,
                       symbol |-> options.symbol, salt |-> randomSalt,
                       image |-> options.image],
      poolConfig |-> [pairedToken |-> pairedTokenOf(options), tickSpacing |-> 200],
      lockerConfig |->
        [locker |-> FEE_LOCKER,
         rewardAdmins |-> [i \in 1..Len(options.rewards.recipients) |->
                             options.rewards.recipients[i].admin],
         rewardRecipients |-> [i \in 1..Len(options.rewards.recipients) |->
                                 options.rewards.recipients[i].recipient],
         rewardBps |-> [i \in 1..Len(options.rewards.recipients) |->
                          options.rewards.recipients[i].bps],
         lockerData |-> encodeLockerData(feePreferencesOf(options))],
      extensionConfigs |-> <<>>],
   shareRecipients |-> [i \in 1..Len(options.rewards.recipients) |->
                          options.rewards.recipients[i].recipient]]

\* variant: the extension entry is given no msgValue
BuildDeployParams_ZeroMsgValue(options, randomSalt, vaults) ==
  LET amount == IF HasDevBuy(options)
                  THEN parseEther(NumberToString(options.devBuy[1].ethAmount))
                  ELSE [ok |-> TRUE, error |-> NoError, value |-> <<0>>]
      extensionConfigs ==
        IF HasDevBuy(options)
          THEN <<[extension |-> DEV_BUY_EXTENSION, msgValue |-> <<0>>,
                  extensionBps |-> 0,
                  extensionData |-> encodeDevBuyData(options.tokenAdmin)]>>
          ELSE <<>>
  IN [ok |-> amount.ok,
      error |-> amount.error,
      config |->
        [tokenConfig |-> [tokenAdmin |-> options.tokenAdmin, name |-> options.name,
                          symbol |-> options.symbol, salt |-> randomSalt,
                          image |-> options.image],
         poolConfig |-> [pairedToken |-> pairedTokenOf(options), tickSpacing |-> 200],
         lockerConfig |->
           [locker |-> FEE_LOCKER,
            rewardAdmins |-> vaults,
            rewardRecipients |-> vaults,
            rewardBps |-> [i \in 1..Len(options.rewards.recipients) |->
                             options.rewards.recipients[i].bps],
            lockerData |-> encodeLockerData(feePreferencesOf(options))],
         extensionConfigs |-> extensionConfigs],
      shareRecipients |-> [i \in 1..Len(options.rewards.recipients) |->
                             options.rewards.recipients[i].recipient]]

\* what the builder returns once its reads are done; the dev-buy extension's
\* parseEther may throw
BuildDeployParams(options, randomSalt, vaults) ==
  LET amount == IF HasDevBuy(options)
                  THEN parseEther(NumberToString(options.devBuy[1].ethAmount))
                  ELSE [ok |-> TRUE, error |-> NoError, value |-> <<0>>]
      extensionConfigs ==
        IF HasDevBuy(options)
          THEN <<[extension |-> DEV_BUY_EXTENSION, msgValue |-> amount.value,
                  extensionBps |-> 0,
                  extensionData |-> encodeDevBuyData(options.tokenAdmin)]>>
          ELSE <<>>
  IN [ok |-> amount.ok,
      error |-> amount.error,
      config |->
        [tokenConfig |-> [tokenAdmin |-> options.tokenAdmin, name |-> options.name,
                          symbol |-> options.symbol, salt |-> randomSalt,
                          image |-> options.image],
         poolConfig |-> poolConfigOf(options),
         lockerConfig |-> lockerConfigOf(options, vaults),
         mevModuleConfig |-> mevModuleConfigOf,
         extensionConfigs |-> extensionConfigs],
      shareRecipients |-> [i \in 1..Len(options.rewards.recipients) |->
                             options.rewards.recipients[i].recipient]]

\* variant: no value is attached
DeployValue_Zero(options) == [ok |-> TRUE, error |-> NoError, value |-> <<0>>]

\* the value attached by deployWithTokenizedFees
DeployValue(options) ==
  IF HasDevBuy(options)
    THEN parseEther(NumberToString(options.devBuy[1].ethAmount))
    ELSE [ok |-> TRUE, error |-> NoError, value |-> <<0>>]

\* the writeContract call of deployWithTokenizedFees
DeployWrite(options, built) ==
  [ev |-> "writeContract", address |-> V4_TOKENIZER,
   functionName |-> "tokenizeAndDeployV4Clanker",
   args |-> <<built.config, built.shareRecipients>>,
   value |-> DeployValue(options).value]

\* variant: the version tag is ignored
InitWrite_AlwaysV4(options) ==
  [ev |-> "writeContract",
   address |-> V4_TOKENIZER,
   functionName |-> "initTokenization",
   args |-> <<options.clankerToken,
              [recipients |-> [i \in 1..Len(options.rewards.recipients) |->
                 [recipient |-> options.rewards.recipients[i].recipient,
                  admin |-> options.rewards.recipients[i].admin,
                  bps |-> options.rewards.recipients[i].bps,
                  token |-> tokenTypeToUint8(options.rewards.recipients[i].token)]]]>>,
   value |-> Absent]

\* the writeContract call of finalizeTokenization
FinalizeWrite(options) ==
  [ev |-> "writeContract", address |-> V4_TOKENIZER,
   functionName |-> "finalizeTokenization",
   args |-> <<options.clankerToken, options.pendingId>>,
   value |-> Absent]

\* the writeContract call of claimRewards
ClaimWrite(options) ==
  [ev |-> "writeContract", address |-> options.vaultAddress,
   functionName |-> "claimRewards", args |-> <<>>, value |-> Absent]

\* the writeContract call of initTokenization (no value attached)
InitWrite(options) ==
  [ev |-> "writeContract",
   address |-> IF options.version = "v4" THEN V4_TOKENIZER ELSE V3_1_0_TOKENIZER,
   functionName |-> "initTokenization",
   args |-> <<options.clankerToken,
              [recipients |-> [i \in 1..Len(options.rewards.recipients) |->
                 [recipient |-> options.rewards.recipients[i].recipient,
                  admin |-> options.rewards.recipients[i].admin,
                  bps |-> options.rewards.recipients[i].bps,
                  token |-> tokenTypeToUint8(options.rewards.recipients[i].token)]]]>>,
   value |-> Absent]

\* ------------------------------------------------------------------------
\* Inputs
\* ------------------------------------------------------------------------
\* n recipients whose bps sum to total (n > 0): an even split, the remainder
\* on the first recipient, and skew moved from the last recipient to the first
MkRecipients(n, total, skew, toks) ==
  LET base == IF n = 0 THEN 0 ELSE total \div n
      rem == IF n = 0 THEN 0 ELSE total % n
      sk == IF n >= 2 /\ base >= skew THEN skew ELSE 0
  IN [i \in 1..n |->
        [recipient |-> Users[((i - 1) % Len(Users)) + 1],
         admin |-> Admins[((i - 1) % Len(Admins)) + 1],
         bps |-> base + (IF i = 1 THEN rem + sk ELSE 0) - (IF i = n THEN sk ELSE 0),
         token |-> toks[((i - 1) % TokPeriod) + 1]]]

RecipientLists ==
  { MkRecipients(n, total, skew, toks) :
      n \in 0..MaxRecipients, total \in Totals, skew \in Skews,
      toks \in [1..TokPeriod -> TokenType] }

\* devBuy.amountOutMin, an optional bigint
AmountOutMins == {Absent, Some(<<5>>)}
DevBuys == {Absent} \cup
           { Some([ethAmount |-> a, amountOutMin |-> Absent]) : a \in EthAmounts } \cup
           { Some([ethAmount |-> 5000000, amountOutMin |-> m]) : m \in AmountOutMins }
Pools ==
  {Absent, Some([pairedToken |-> Absent, tickIfToken0IsClanker |-> Absent, positions |-> Absent])}
  \cup { Some([pairedToken |-> Some(p), tickIfToken0IsClanker |-> Absent, positions |-> Absent]) :
           p \in PairedTokens }

DeployOptions ==
  { [name |-> "Test Token", symbol |-> "TEST", image |-> "",
     tokenAdmin |-> a, rewards |-> [recipients |-> rs], devBuy |-> d, pool |-> p,
     fees |-> Absent, vault |-> Absent, vanity |-> Absent] :
      a \in TokenAdmins, rs \in RecipientLists, d \in DevBuys, p \in Pools }

InitOptions ==
  { [clankerToken |-> t, version |-> v, rewards |-> [recipients |-> rs]] :
      t \in ExistingTokens, v \in Versions, rs \in RecipientLists }

FinalizeOptions ==
  { [pendingId |-> id, clankerToken |-> t] : id \in PendingIds, t \in ExistingTokens }

ClaimOptions == { [vaultAddress |-> v] : v \in ClaimVaults }

NoOptions == [rewards |-> [recipients |-> <<>>]]

\* ------------------------------------------------------------------------
\* State
\* ------------------------------------------------------------------------
VARIABLES
  pc,              \* "idle", "read" (a read is awaited), "write" (the submission is awaited), "done"
  kind,            \* the operation in progress or last returned: "deploy", "init", "finalize", "claim", "none"
  options,         \* its argument
  salt,            \* generateSalt() of the build in progress
  vaultAddresses,  \* the builder's vaultAddresses array
  net,             \* the calls made to the two clients and their outcomes, in order
  result,          \* what the operation returned
  history,         \* outside the instance: the tokenization transactions submitted so far
  handedOver,      \* outside the instance: the tokens whose fee admin was transferred to the vault
  waited,          \* how the returned result's waitForTransaction() ended, once the caller has called it
  info,            \* a getVaultInfo call: its reads and how it ended
  calls            \* two deployWithTokenizedFees calls in flight on the one instance

others == <<waited, info, calls>>
vars == <<pc, kind, options, salt, vaultAddresses, net, result, history, handedOver, others>>
chain == <<history, handedOver, others>>

NotWaited == [state |-> "none"]
NoInfo == [pc |-> "idle"]
NoCalls == <<>>

Init ==
  /\ pc = "idle"
  /\ kind = "none"
  /\ options = NoOptions
  /\ salt = ""
  /\ vaultAddresses = <<>>
  /\ net = <<>>
  /\ result = NoResult
  /\ history = <<>>
  /\ handedOver = {}
  /\ waited = NotWaited
  /\ info = NoInfo
  /\ calls = NoCalls

\* variant: all the reads are issued at once, before the first is awaited
AfterReads_AllAtOnce(opts, randomSalt, vaults, log) ==
  IF Len(vaults) < Len(feePreferencesOf(opts))
    THEN /\ pc' = "read"
         /\ net' = IF vaults = <<>>
                     THEN log \o [i \in 1..Len(feePreferencesOf(opts)) |->
                                    VaultRead(opts, randomSalt, i)]
                     ELSE log
         /\ result' = NoResult
    ELSE LET built == BuildDeployParams(opts, randomSalt, vaults) IN
         IF built.ok
           THEN /\ pc' = "write"
                /\ net' = Append(log, DeployWrite(opts, built))
                /\ result' = NoResult
           ELSE /\ pc' = "done"
                /\ net' = log
                /\ result' = Failure(built.error, built.error)

\* variant: the submission does not wait for the reads after the first
AfterReads_SubmitsEarly(opts, randomSalt, vaults, log) ==
  IF vaults = <<>> /\ Len(feePreferencesOf(opts)) > 0
    THEN /\ pc' = "read"
         /\ net' = Append(log, VaultRead(opts, randomSalt, 1))
         /\ result' = NoResult
    ELSE LET built == BuildDeployParams(opts, randomSalt, vaults) IN
         IF built.ok
           THEN /\ pc' = "write"
                /\ net' = (IF Len(vaults) < Len(feePreferencesOf(opts))
                             THEN Append(log, VaultRead(opts, randomSalt, Len(vaults) + 1))
                             ELSE log) \o <<DeployWrite(opts, built)>>
                /\ result' = NoResult
           ELSE /\ pc' = "done"
                /\ net' = log
                /\ result' = Failure(built.error, built.error)

\* the builder after i reads: the next read, or the rest of the build and the
\* submission
AfterReads(opts, randomSalt, vaults, log) ==
  IF Len(vaults) < Len(feePreferencesOf(opts))
    THEN /\ pc' = "read"
         /\ net' = Append(log, VaultRead(opts, randomSalt, Len(vaults) + 1))
         /\ result' = NoResult
    ELSE LET built == BuildDeployParams(opts, randomSalt, vaults) IN
         IF built.ok
           THEN /\ pc' = "write"
                /\ net' = Append(log, DeployWrite(opts, built))
                /\ result' = NoResult
           ELSE /\ pc' = "done"
                /\ net' = log
                /\ result' = Failure(built.error, built.error)

\* deployWithTokenizedFees(opts), up to its first await or early return;
\* randomSalt is what generateSalt() draws
DeployCall(opts, randomSalt) ==
  /\ pc = "idle"
  /\ kind' = "deploy"
  /\ options' = opts
  /\ vaultAddresses' = <<>>
  /\ LET checked == DeployValidation(opts.rewards.recipients) IN
     IF checked # NoResult
       THEN /\ pc' = "done"
            /\ result' = checked
            /\ net' = <<>>
            /\ salt' = ""
       ELSE /\ salt' = randomSalt
            /\ AfterReads(opts, randomSalt, <<>>, <<>>)

DeployWithTokenizedFees ==
  /\ pc = "idle"
  /\ \E opts \in DeployOptions, randomSalt \in Nonces : DeployCall(opts, randomSalt)

\* initTokenization(opts), up to its await or early return
InitTokenizationCall(opts) ==
  /\ pc = "idle"
  /\ kind' = "init"
  /\ options' = opts
  /\ vaultAddresses' = <<>>
  /\ salt' = ""
  /\ LET checked == InitValidation(opts.rewards.recipients) IN
     IF checked # NoResult
       THEN /\ pc' = "done"
            /\ result' = checked
            /\ net' = <<>>
       ELSE /\ pc' = "write"
            /\ result' = NoResult
            /\ net' = <<InitWrite(opts)>>

InitTokenization ==
  /\ pc = "idle"
  /\ \E opts \in InitOptions : InitTokenizationCall(opts)

\* variant: a handle that was finalized before is refused locally
FinalizeTokenizationCall_OncePerHandle(opts) ==
  /\ pc = "idle"
  /\ kind' = "finalize"
  /\ options' = opts
  /\ vaultAddresses' = <<>>
  /\ salt' = ""
  /\ IF \E i \in DOMAIN history :
          /\ history[i].op = "finalizeTokenization"
          /\ history[i].token = opts.clankerToken
          /\ history[i].pendingId = opts.pendingId
       THEN /\ pc' = "done"
            /\ result' = Failure(Err("Already finalized", <<>>), Err("Already finalized", <<>>))
            /\ net' = <<>>
       ELSE /\ pc' = "write"
            /\ result' = NoResult
            /\ net' = <<FinalizeWrite(opts)>>

\* variant: the admin handover is checked locally before submitting
FinalizeTokenizationCall_ChecksHandover(opts) ==
  /\ pc = "idle"
  /\ kind' = "finalize"
  /\ options' = opts
  /\ vaultAddresses' = <<>>
  /\ salt' = ""
  /\ IF opts.clankerToken \notin handedOver
       THEN /\ pc' = "done"
            /\ result' = Failure(Err("Admin not transferred", <<>>), Err("Admin not transferred", <<>>))
            /\ net' = <<>>
       ELSE /\ pc' = "write"
            /\ result' = NoResult
            /\ net' = <<FinalizeWrite(opts)>>

\* finalizeTokenization(opts), up to its await
FinalizeTokenizationCall(opts) ==
  /\ pc = "idle"
  /\ kind' = "finalize"
  /\ options' = opts
  /\ vaultAddresses' = <<>>
  /\ salt' = ""
  /\ pc' = "write"
  /\ result' = NoResult
  /\ net' = <<FinalizeWrite(opts)>>

FinalizeTokenization ==
  /\ pc = "idle"
  /\ \E opts \in FinalizeOptions : FinalizeTokenizationCall(opts)

\* claimRewards(options), up to its await
ClaimRewards ==
  /\ pc = "idle"
  /\ \E opts \in ClaimOptions :
    /\ kind' = "claim"
    /\ options' = opts
    /\ vaultAddresses' = <<>>
    /\ salt' = ""
    /\ pc' = "write"
    /\ result' = NoResult
    /\ net' = <<ClaimWrite(opts)>>

\* the awaited readContract resolves with the factory's answer
ReadResolves ==
  /\ pc = "read"
  /\ LET value == FactoryVault(VaultRead(options, salt, Len(vaultAddresses) + 1).args)
         vaults == Append(vaultAddresses, value)
     IN /\ vaultAddresses' = vaults
        /\ AfterReads(options, salt, vaults,
                      Append(net, [ev |-> "readResolved", value |-> value]))
  /\ UNCHANGED <<kind, options, salt>>

\* variant: a rejected read is issued once more
ReadRejects_Retries ==
  \E e \in ReadErrors :
    /\ pc = "read"
    /\ IF \E k \in DOMAIN net : net[k].ev = "readRejected"
         THEN /\ pc' = "done"
              /\ net' = Append(net, [ev |-> "readRejected", error |-> Err(e, <<>>)])
              /\ result' = Failure(Err(e, <<>>), Err(e, <<>>))
         ELSE /\ pc' = "read"
              /\ net' = net \o <<[ev |-> "readRejected", error |-> Err(e, <<>>)],
                                 VaultRead(options, salt, Len(vaultAddresses) + 1)>>
              /\ result' = NoResult
    /\ UNCHANGED <<kind, options, salt, vaultAddresses>>

\* the awaited readContract rejects: the catch block returns the error
ReadRejects ==
  \E e \in ReadErrors :
    /\ pc = "read"
    /\ pc' = "done"
    /\ net' = Append(net, [ev |-> "readRejected", error |-> Err(e, <<>>)])
    /\ result' = Failure(Err(e, <<>>), Err(e, <<>>))
    /\ UNCHANGED <<kind, options, salt, vaultAddresses>>

\* the awaited writeContract resolves with a transaction hash
WriteResolves ==
  \E h \in TxHashes :
    /\ pc = "write"
    /\ pc' = "done"
    /\ net' = Append(net, [ev |-> "writeResolved", hash |-> h])
    /\ result' = Success(h)
    /\ UNCHANGED <<kind, options, salt, vaultAddresses>>

\* variant: the catch block returns an error of its own
WriteRejects_WrapsError ==
  \E e \in WriteErrors :
    /\ pc = "write"
    /\ pc' = "done"
    /\ net' = Append(net, [ev |-> "writeRejected", error |-> Err(e, <<>>)])
    /\ result' = Failure(Err("Transaction failed", <<>>), Err("Transaction failed", <<>>))
    /\ UNCHANGED <<kind, options, salt, vaultAddresses>>

\* the awaited writeContract rejects with error e: the catch block returns it
WriteRejectsWith(e) ==
  /\ pc = "write"
  /\ pc' = "done"
  /\ net' = Append(net, [ev |-> "writeRejected", error |-> Err(e, <<>>)])
  /\ result' = Failure(Err(e, <<>>), Err(e, <<>>))
  /\ UNCHANGED <<kind, options, salt, vaultAddresses>>

\* the awaited writeContract rejects: the catch block returns the error
WriteRejects == \E e \in WriteErrors : WriteRejectsWith(e)

\* the caller has taken the result; the instance keeps nothing of the call
Return ==
  /\ pc = "done"
  /\ pc' = "idle"
  /\ kind' = "none"
  /\ options' = NoOptions
  /\ salt' = ""
  /\ vaultAddresses' = <<>>
  /\ net' = <<>>
  /\ result' = NoResult

\* one instance, one call at a time, any operation with any input; the
\* world outside the instance is left out
Next ==
  \/ DeployWithTokenizedFees /\ UNCHANGED chain
  \/ InitTokenization /\ UNCHANGED chain
  \/ FinalizeTokenization /\ UNCHANGED chain
  \/ ClaimRewards /\ UNCHANGED chain
  \/ ReadResolves /\ UNCHANGED chain
  \/ ReadRejects /\ UNCHANGED chain
  \/ WriteResolves /\ UNCHANGED chain
  \/ WriteRejects /\ UNCHANGED chain
  \/ Return /\ UNCHANGED chain

Spec == Init /\ [][Next]_vars

\* ------------------------------------------------------------------------
\* The tokenization protocol: initialize, admin handover, finalize.
\* The instance keeps nothing between calls; what was submitted and what was
\* handed over lives outside it.
\* ------------------------------------------------------------------------
FlowInitOptions ==
  { [clankerToken |-> t, version |-> v,
     rewards |-> [recipients |-> MkRecipients(1, total, 0, [i \in 1..TokPeriod |-> "Both"])]] :
      t \in ExistingTokens, v \in Versions, total \in {5000, 10000} }

\* what the receiving contract answers when the fee admin was not handed over
ContractRevert == "execution reverted"

\* the tokenization transaction a call has just handed to the wallet, if any
Submitted(opts, log) ==
  IF log = <<>> THEN <<>>
  ELSE <<[op |-> log[1].functionName,
          address |-> log[1].address,
          token |-> opts.clankerToken,
          pendingId |-> IF "pendingId" \in DOMAIN opts THEN opts.pendingId ELSE <<>>]>>

FlowInit ==
  /\ Len(history) < MaxCalls
  /\ \E opts \in FlowInitOptions :
       /\ InitTokenizationCall(opts)
       /\ history' = history \o Submitted(opts, net')
  /\ UNCHANGED <<handedOver, others>>

FlowFinalize ==
  /\ Len(history) < MaxCalls
  /\ \E opts \in FinalizeOptions :
       /\ FinalizeTokenizationCall(opts)
       /\ history' = history \o Submitted(opts, net')
  /\ UNCHANGED <<handedOver, others>>

\* the token's owner transfers the fee admin to the vault, outside the SDK
AdminHandover ==
  /\ pc = "idle"
  /\ \E t \in ExistingTokens \ handedOver : handedOver' = handedOver \cup {t}
  /\ UNCHANGED <<pc, kind, options, salt, vaultAddresses, net, result, history, others>>

\* the contract takes the transaction: a finalize only after the handover
ContractAccepts ==
  /\ kind = "finalize" => options.clankerToken \in handedOver
  /\ WriteResolves
  /\ UNCHANGED chain

\* the contract reverts a finalize submitted before the handover
ContractRejects ==
  /\ kind = "finalize"
  /\ options.clankerToken \notin handedOver
  /\ WriteRejectsWith(ContractRevert)
  /\ UNCHANGED chain

NextFlow ==
  \/ FlowInit
  \/ FlowFinalize
  \/ AdminHandover
  \/ ContractAccepts
  \/ ContractRejects
  \/ WriteRejects /\ UNCHANGED chain
  \/ Return /\ UNCHANGED chain

SpecFlow == Init /\ [][NextFlow]_vars

\* ------------------------------------------------------------------------
\* Deployments with a pool geometry, a vesting vault, a fee policy and the
\* vanity flag: the optional fields of DeployWithTokenizedFeesOptions
\* ------------------------------------------------------------------------
Position(lo, hi, b) == [tickLower |-> lo, tickUpper |-> hi, positionBps |-> b]

CustomPositions ==
  { <<Position(0 - 223400, 0 - 200000, 6000), Position(0 - 200000, 0 - 120000, 4000)>>,
    <<Position(0 - 223400, 0 - 200000, 6000), Position(0 - 200000, 0 - 120000, 3000)>>,
    <<Position(0 - 200000, 0 - 223400, 10000)>> }

PositionChoices ==
  {Absent} \cup { Some(ps) : ps \in CustomPositions \cup {POOL_POSITIONS.Project, POOL_POSITIONS.Legacy} }

StartTicks == {Absent, Some(0 - 223400), Some(0 - 200000), Some(0)}

GeomPools ==
  {Absent} \cup
  { Some([pairedToken |-> Absent, tickIfToken0IsClanker |-> t, positions |-> ps]) :
      t \in StartTicks, ps \in PositionChoices }

VaultConfigs ==
  {Absent} \cup
  { Some([percentage |-> pct, lockupDuration |-> lock, vestingDuration |-> 0]) :
      pct \in {0, 50, 150}, lock \in {86400, 604800} }

FeeConfigs ==
  {Absent,
   Some([type |-> "static", clankerFee |-> 300, pairedFee |-> 300]),
   Some([type |-> "dynamic", startFee |-> 8000, endFee |-> 100, decayDuration |-> 60])}

Vanities == {Absent, Some(TRUE)}

GeomDevBuys ==
  {Absent} \cup { Some([ethAmount |-> 5000000, amountOutMin |-> m]) : m \in AmountOutMins }

\* two recipients of 5000 bps each, both administered by admin
GeomRecipients(admin) ==
  [i \in 1..2 |->
     [recipient |-> Users[i], admin |-> admin, bps |-> 5000,
      token |-> IF i = 1 THEN "Both" ELSE "Clanker"]]

GeomDeployOptions ==
  { [name |-> "Test Token", symbol |-> "TEST", image |-> "",
     tokenAdmin |-> Admins[1], rewards |-> [recipients |-> GeomRecipients(Admins[a])],
     devBuy |-> d, pool |-> p, fees |-> f, vault |-> v, vanity |-> y] :
      a \in 1..2, d \in GeomDevBuys, p \in GeomPools, f \in FeeConfigs,
      v \in VaultConfigs, y \in Vanities }

GeomDeploy ==
  /\ pc = "idle"
  /\ \E opts \in GeomDeployOptions, randomSalt \in Nonces : DeployCall(opts, randomSalt)

NextGeom ==
  \/ GeomDeploy /\ UNCHANGED chain
  \/ ReadResolves /\ UNCHANGED chain
  \/ ReadRejects /\ UNCHANGED chain
  \/ WriteResolves /\ UNCHANGED chain
  \/ WriteRejects /\ UNCHANGED chain
  \/ Return /\ UNCHANGED chain

SpecGeom == Init /\ [][NextGeom]_vars

\* ------------------------------------------------------------------------
\* waitForTransaction() of a returned result
\* ------------------------------------------------------------------------
ReceiptStatuses == {"success", "reverted"}
ReceiptErrors == {"receipt timeout"}

ReceiptDeployOptions ==
  { [name |-> "Test Token", symbol |-> "TEST", image |-> "",
     tokenAdmin |-> Admins[1], rewards |-> [recipients |-> GeomRecipients(Admins[1])],
     devBuy |-> Absent, pool |-> Absent, fees |-> Absent, vault |-> Absent,
     vanity |-> Absent] }

\* any of the four operations is called
ReceiptCall ==
  /\ pc = "idle"
  /\ \/ \E opts \in ReceiptDeployOptions, randomSalt \in Nonces : DeployCall(opts, randomSalt)
     \/ \E opts \in FlowInitOptions : InitTokenizationCall(opts)
     \/ \E opts \in FinalizeOptions : FinalizeTokenizationCall(opts)
     \/ ClaimRewards
  /\ UNCHANGED chain

\* the caller calls waitForTransaction() of a result that holds a hash: the
\* callback awaits publicClient.waitForTransactionReceipt({ hash: txHash })
WaitForTransaction ==
  /\ pc = "done"
  /\ waited = NotWaited
  /\ result.error = NoError
  /\ result.txHash \in TxHashes
  /\ pc' = "wait"
  /\ net' = Append(net, [ev |-> "waitForTransactionReceipt", hash |-> result.txHash])
  /\ UNCHANGED <<kind, options, salt, vaultAddresses, result, history, handedOver, others>>

\* the caller calls waitForTransaction() of a failure result: it throws
WaitForTransactionThrows ==
  /\ pc = "done"
  /\ waited = NotWaited
  /\ result.error # NoError
  /\ waited' = [state |-> "rejected", error |-> result.waitForTransaction.throws]
  /\ UNCHANGED <<pc, kind, options, salt, vaultAddresses, net, result, history, handedOver, info, calls>>

\* the receipt arrives: the callback returns its data whatever the receipt says
ReceiptResolves ==
  \E st \in ReceiptStatuses :
    /\ pc = "wait"
    /\ pc' = "done"
    /\ net' = Append(net, [ev |-> "receiptResolved", status |-> st])
    /\ waited' = [state |-> "resolved", txHash |-> result.txHash]
    /\ UNCHANGED <<kind, options, salt, vaultAddresses, result, history, handedOver, info, calls>>

\* waiting for the receipt fails: the callback's await throws
ReceiptRejects ==
  \E e \in ReceiptErrors :
    /\ pc = "wait"
    /\ pc' = "done"
    /\ net' = Append(net, [ev |-> "receiptRejected", error |-> Err(e, <<>>)])
    /\ waited' = [state |-> "rejected", error |-> Err(e, <<>>)]
    /\ UNCHANGED <<kind, options, salt, vaultAddresses, result, history, handedOver, info, calls>>

\* the caller drops the result
ReceiptReturn ==
  /\ Return
  /\ waited' = NotWaited
  /\ UNCHANGED <<history, handedOver, info, calls>>

NextReceipt ==
  \/ ReceiptCall
  \/ ReadResolves /\ UNCHANGED chain
  \/ ReadRejects /\ UNCHANGED chain
  \/ WriteResolves /\ UNCHANGED chain
  \/ WriteRejects /\ UNCHANGED chain
  \/ WaitForTransaction
  \/ WaitForTransactionThrows
  \/ ReceiptResolves
  \/ ReceiptRejects
  \/ ReceiptReturn

SpecReceipt == Init /\ [][NextReceipt]_vars

\* ------------------------------------------------------------------------
\* getVaultInfo(vaultAddress): three reads under Promise.all
\* ------------------------------------------------------------------------
InfoReads == <<"sharesToken", "clankerToken", "pairedToken">>
InfoAnswers == {<<"contract", "tokenA">>, <<"contract", "tokenB">>}
Pending == [state |-> "pending"]

\* variant: the second and third results are bound the other way round
VaultInfoOf_Swapped(address, settled) ==
  [address |-> address,
   clankerToken |-> settled[3].value,
   pairedToken |-> settled[2].value,
   sharesToken |-> settled[1].value,
   totalShares |-> <<0>>,
   pendingClankerRewards |-> <<0>>,
   pendingPairedRewards |-> <<0>>]

\* the object getVaultInfo returns from the destructured results
VaultInfoOf(address, settled) ==
  [address |-> address,
   clankerToken |-> settled[2].value,
   pairedToken |-> settled[3].value,
   sharesToken |-> settled[1].value,
   totalShares |-> <<0>>,
   pendingClankerRewards |-> <<0>>,
   pendingPairedRewards |-> <<0>>]

\* the call: the three readContract calls are made before Promise.all awaits
GetVaultInfo ==
  /\ info.pc = "idle"
  /\ \E v \in ClaimVaults :
       info' = [pc |-> "reads", address |-> v,
                log |-> [i \in 1..3 |->
                           [ev |-> "readContract", address |-> v,
                            functionName |-> InfoReads[i]]],
                settled |-> [i \in 1..3 |-> Pending],
                out |-> [state |-> "none"]]
  /\ UNCHANGED <<pc, kind, options, salt, vaultAddresses, net, result, history,
                 handedOver, waited, calls>>

\* one of the reads resolves; when it is the last, Promise.all resolves
\* with the results in the order of the reads and getVaultInfo returns
InfoReadResolves ==
  /\ info.pc # "idle"
  /\ \E i \in 1..3, a \in InfoAnswers :
       /\ info.settled[i] = Pending
       /\ LET settled == [info.settled EXCEPT ![i] = [state |-> "resolved", value |-> a]]
              log == Append(info.log, [ev |-> "readResolved", of |-> i, value |-> a])
              all == \A j \in 1..3 : settled[j].state = "resolved"
          IN info' = IF info.pc = "reads" /\ all
                       THEN [info EXCEPT !.pc = "done", !.settled = settled, !.log = log,
                                         !.out = [state |-> "resolved",
                                                  value |-> VaultInfoOf(info.address, settled)]]
                       ELSE [info EXCEPT !.settled = settled, !.log = log]
  /\ UNCHANGED <<pc, kind, options, salt, vaultAddresses, net, result, history,
                 handedOver, waited, calls>>

\* one of the reads rejects; the first rejection rejects Promise.all and
\* getVaultInfo throws it
InfoReadRejects ==
  /\ info.pc # "idle"
  /\ \E i \in 1..3, e \in ReadErrors :
       /\ info.settled[i] = Pending
       /\ LET settled == [info.settled EXCEPT ![i] = [state |-> "rejected", error |-> Err(e, <<i>>)]]
              log == Append(info.log, [ev |-> "readRejected", of |-> i, error |-> Err(e, <<i>>)])
          IN info' = IF info.pc = "reads"
                       THEN [info EXCEPT !.pc = "done", !.settled = settled, !.log = log,
                                         !.out = [state |-> "rejected", error |-> Err(e, <<i>>)]]
                       ELSE [info EXCEPT !.settled = settled, !.log = log]
  /\ UNCHANGED <<pc, kind, options, salt, vaultAddresses, net, result, history,
                 handedOver, waited, calls>>

\* the caller has taken the outcome
InfoReturn ==
  /\ info.pc = "done"
  /\ info' = NoInfo
  /\ UNCHANGED <<pc, kind, options, salt, vaultAddresses, net, result, history,
                 handedOver, waited, calls>>

NextInfo ==
  \/ GetVaultInfo
  \/ InfoReadResolves
  \/ InfoReadRejects
  \/ InfoReturn

SpecInfo == Init /\ [][NextInfo]_vars

\* ------------------------------------------------------------------------
\* Two deployWithTokenizedFees calls in flight on the one instance: each
\* call has its own locals (options, salt, vaultAddresses); the instance
\* holds only the two clients
\* ------------------------------------------------------------------------
ConcIds == 1..2

IdleCall ==
  [pc |-> "idle", options |-> NoOptions, salt |-> "", vaultAddresses |-> <<>>,
   net |-> <<>>, result |-> NoResult]

ConcOptions ==
  { [name |-> "Test Token", symbol |-> "TEST", image |-> "",
     tokenAdmin |-> a, rewards |-> [recipients |-> rs],
     devBuy |-> d, pool |-> Absent, fees |-> Absent, vault |-> Absent,
     vanity |-> Absent] :
      a \in TokenAdmins,
      rs \in {MkRecipients(1, 10000, 0, [i \in 1..TokPeriod |-> "Paired"]),
               GeomRecipients(Admins[1])},
      d \in {Absent, Some([ethAmount |-> 5000000, amountOutMin |-> Absent])} }

InitConc ==
  /\ pc = "idle"
  /\ kind = "none"
  /\ options = NoOptions
  /\ salt = ""
  /\ vaultAddresses = <<>>
  /\ net = <<>>
  /\ result = NoResult
  /\ history = <<>>
  /\ handedOver = {}
  /\ waited = NotWaited
  /\ info = NoInfo
  /\ calls = [c \in ConcIds |-> IdleCall]

\* variant: the salt is kept in a field of the instance, which the second
\* call overwrites
saltSeenBy_InstanceField(cs, c) ==
  IF cs[2].salt # "" THEN cs[2].salt ELSE cs[c].salt

\* the salt call c works with: its own local const
saltSeenBy(cs, c) == cs[c].salt

\* the builder of a call after its reads so far: the next read, or the rest
\* of the build and the submission
AfterReadsOf(opts, randomSalt, vaults, log) ==
  IF Len(vaults) < Len(feePreferencesOf(opts))
    THEN [pc |-> "read",
          net |-> Append(log, VaultRead(opts, randomSalt, Len(vaults) + 1)),
          result |-> NoResult]
    ELSE LET built == BuildDeployParams(opts, randomSalt, vaults) IN
         IF built.ok
           THEN [pc |-> "write", net |-> Append(log, DeployWrite(opts, built)),
                 result |-> NoResult]
           ELSE [pc |-> "done", net |-> log,
                 result |-> Failure(built.error, built.error)]

Continue(cs, c, vaults, log) ==
  LET cont == AfterReadsOf(cs[c].options, saltSeenBy(cs, c), vaults, log)
  IN [cs EXCEPT ![c].pc = cont.pc, ![c].net = cont.net, ![c].result = cont.result,
                ![c].vaultAddresses = vaults]

ConcUnchanged ==
  UNCHANGED <<pc, kind, options, salt, vaultAddresses, net, result, history,
              handedOver, waited, info>>

ConcDeploy(c) ==
  /\ calls[c].pc = "idle"
  /\ \E opts \in ConcOptions, randomSalt \in Nonces :
       LET checked == DeployValidation(opts.rewards.recipients)
           started == [calls EXCEPT ![c].options = opts, ![c].salt = randomSalt]
       IN calls' = IF checked # NoResult
                     THEN [calls EXCEPT ![c].options = opts, ![c].pc = "done",
                                        ![c].result = checked]
                     ELSE Continue(started, c, <<>>, <<>>)
  /\ ConcUnchanged

ConcReadResolves(c) ==
  /\ calls[c].pc = "read"
  /\ LET me == calls[c]
         value == FactoryVault(me.net[Len(me.net)].args)
     IN calls' = Continue(calls, c, Append(me.vaultAddresses, value),
                          Append(me.net, [ev |-> "readResolved", value |-> value]))
  /\ ConcUnchanged

ConcReadRejects(c) ==
  /\ calls[c].pc = "read"
  /\ \E e \in ReadErrors :
       calls' = [calls EXCEPT
                   ![c].pc = "done",
                   ![c].net = Append(@, [ev |-> "readRejected", error |-> Err(e, <<>>)]),
                   ![c].result = Failure(Err(e, <<>>), Err(e, <<>>))]
  /\ ConcUnchanged

ConcWriteResolves(c) ==
  /\ calls[c].pc = "write"
  /\ \E h \in TxHashes :
       calls' = [calls EXCEPT
                   ![c].pc = "done",
                   ![c].net = Append(@, [ev |-> "writeResolved", hash |-> h]),
                   ![c].result = Success(h)]
  /\ ConcUnchanged

ConcWriteRejects(c) ==
  /\ calls[c].pc = "write"
  /\ \E e \in WriteErrors :
       calls' = [calls EXCEPT
                   ![c].pc = "done",
                   ![c].net = Append(@, [ev |-> "writeRejected", error |-> Err(e, <<>>)]),
                   ![c].result = Failure(Err(e, <<>>), Err(e, <<>>))]
  /\ ConcUnchanged

NextConc ==
  \/ \E c \in ConcIds : ConcDeploy(c)
  \/ \E c \in ConcIds : ConcReadResolves(c)
  \/ \E c \in ConcIds : ConcReadRejects(c)
  \/ \E c \in ConcIds : ConcWriteResolves(c)
  \/ \E c \in ConcIds : ConcWriteRejects(c)

SpecConc == InitConc /\ [][NextConc]_vars

\* ------------------------------------------------------------------------
\* Properties
\* ------------------------------------------------------------------------
recipientsNow ==
  IF kind \in {"deploy", "init"} THEN options.rewards.recipients ELSE <<>>

\* the sum of the bps of a recipient list, by structural recursion
RECURSIVE BpsSum(_)
BpsSum(rs) == IF rs = <<>> THEN 0 ELSE Head(rs).bps + BpsSum(Tail(rs))

SplitError(sum) == Err("Recipient bps must sum to 10000, got ", <<sum>>)
CountError == Err("Maximum 7 reward recipients allowed", <<>>)

EventsOf(ev) == { i \in DOMAIN net : net[i].ev = ev }
DeployWrites ==
  { i \in EventsOf("writeContract") : net[i].functionName = "tokenizeAndDeployV4Clanker" }
Before(k, ev) == { i \in EventsOf(ev) : i < k }

DeployReturned == pc = "done" /\ kind = "deploy"

\* C1: whenever deployWithTokenizedFees returns for a recipient list whose bps
\* sum is not 10000, the result's error is the invalid-split error whose
\* message carries exactly that sum.
C1_InvalidSplit ==
  (DeployReturned /\ BpsSum(recipientsNow) # 10000)
    => /\ result.error = SplitError(BpsSum(recipientsNow))
       /\ result.txHash = "0x"

C1_Witness ==
  /\ DeployReturned
  /\ Len(recipientsNow) = 2
  /\ BpsSum(recipientsNow) = 13000
  /\ result.error = SplitError(13000)

\* C2 (as stated): whenever deployWithTokenizedFees returns for a list of more
\* than 7 recipients, the error is the too-many-recipients error, whatever the
\* bps values.
C2_TooManyRegardlessOfBps ==
  (DeployReturned /\ Len(recipientsNow) > 7) => result.error = CountError

\* C2 (amended): whenever deployWithTokenizedFees returns for a list of more
\* than 7 recipients whose bps sum to 10000, the error is the
\* too-many-recipients error.
C2_TooManyWhenSumValid ==
  (DeployReturned /\ Len(recipientsNow) > 7 /\ BpsSum(recipientsNow) = 10000)
    => /\ result.error = CountError
       /\ net = <<>>

C2_Witness ==
  /\ DeployReturned
  /\ Len(recipientsNow) = 8
  /\ BpsSum(recipientsNow) = 10000
  /\ result.error = CountError

\* C3: for a recipient list with bps sum 10000 and at most 7 entries the
\* validation never rejects, and when the call returns after a submission
\* that succeeded, exactly one transaction was submitted, to V4_TOKENIZER with
\* function tokenizeAndDeployV4Clanker, and the result has no error and the
\* hash that submission returned.
C3_ValidListDeploys ==
  (DeployReturned /\ BpsSum(recipientsNow) = 10000 /\ Len(recipientsNow) <= 7)
    => /\ result.error \notin {SplitError(10000), CountError}
       /\ result.error = NoError <=> EventsOf("writeResolved") # {}
       /\ EventsOf("writeResolved") # {} =>
            /\ Cardinality(EventsOf("writeContract")) = 1
            /\ \A w \in EventsOf("writeContract") :
                 /\ net[w].address = V4_TOKENIZER
                 /\ net[w].functionName = "tokenizeAndDeployV4Clanker"
            /\ result.txHash = net[Len(net)].hash
       /\ (EventsOf("readRejected") = {} /\ EventsOf("writeRejected") = {}
           /\ result.error # InvalidDecimalNumberError)
            => result.error = NoError

C3_Witness ==
  /\ DeployReturned
  /\ Len(recipientsNow) = 7
  /\ BpsSum(recipientsNow) = 10000
  /\ result.error = NoError
  /\ result.txHash = "0xhash2"
  /\ Cardinality(EventsOf("writeContract")) = 1

\* C4: the checks of deployWithTokenizedFees run in the order sum, count and
\* stop at the first failure: the one error returned is the sum error when
\* the sum is wrong (also when the count is wrong too), the count error only
\* when the sum is right, and neither when both checks pass.
C4_FirstFailureOnly ==
  DeployReturned =>
    LET sum == BpsSum(recipientsNow)
        n == Len(recipientsNow)
    IN /\ (result.error = SplitError(sum)) <=> (sum # 10000)
       /\ (result.error = CountError) <=> (sum = 10000 /\ n > 7)
       /\ (sum # 10000 \/ n > 7) => net = <<>>

C4_Witness ==
  /\ DeployReturned
  /\ Len(recipientsNow) = 8
  /\ BpsSum(recipientsNow) = 13000
  /\ result.error = SplitError(13000)
  /\ result.error # CountError

\* the recipient list fails the validation the operation in progress applies
\* to it: sum and count for a deployment, sum for an initialization
FailsValidation ==
  \/ kind = "deploy" /\ (BpsSum(recipientsNow) # 10000 \/ Len(recipientsNow) > 7)
  \/ kind = "init" /\ BpsSum(recipientsNow) # 10000

PrefOf(i) == tokenTypeToFeePreference(recipientsNow[i].token)

\* the answer the factory gave to the read for (clanker, paired, pref), if the
\* log holds one
ResolvedFor(k, clanker, paired, pref) ==
  { net[j + 1].value : j \in { r \in Before(k, "readContract") :
        /\ net[r].functionName = "computeVaultAddress"
        /\ net[r].args = <<clanker, paired, pref>>
        /\ net[r + 1].ev = "readResolved" } }

\* C6: in every deploy record submitted, rewardAdmins[i] and
\* rewardRecipients[i] are the address the factory answered for (predicted
\* token, paired token, preference of recipient i), not recipient i's own
\* recipient or admin address, and recipients with the same preference get
\* the same address.
C6_RewardsReferenceVaults ==
  \A w \in DeployWrites :
    LET locker == net[w].args[1].lockerConfig
        clanker == clankerAddressOf(options, net[w].args[1].tokenConfig.salt)
        paired == net[w].args[1].poolConfig.pairedToken
    IN /\ Len(locker.rewardAdmins) = Len(recipientsNow)
       /\ Len(locker.rewardRecipients) = Len(recipientsNow)
       /\ \A i \in 1..Len(recipientsNow) :
            /\ ResolvedFor(w, clanker, paired, PrefOf(i)) = {locker.rewardAdmins[i]}
            /\ locker.rewardRecipients[i] = locker.rewardAdmins[i]
            /\ locker.rewardAdmins[i] \notin
                 {recipientsNow[i].recipient, recipientsNow[i].admin}
       /\ \A i, j \in 1..Len(recipientsNow) :
            recipientsNow[i].token = recipientsNow[j].token
              => /\ locker.rewardAdmins[i] = locker.rewardAdmins[j]
                 /\ locker.rewardRecipients[i] = locker.rewardRecipients[j]

C6_Witness ==
  /\ DeployWrites # {}
  /\ Len(recipientsNow) = 3
  /\ recipientsNow[1].token = recipientsNow[2].token
  /\ recipientsNow[1].token # recipientsNow[3].token
  /\ \A w \in DeployWrites :
       /\ net[w].args[1].lockerConfig.rewardAdmins[1] = net[w].args[1].lockerConfig.rewardAdmins[2]
       /\ net[w].args[1].lockerConfig.rewardAdmins[1] # net[w].args[1].lockerConfig.rewardAdmins[3]

DistinctPrefs == { PrefOf(i) : i \in 1..Len(recipientsNow) }
VaultReads ==
  { r \in EventsOf("readContract") : net[r].functionName = "computeVaultAddress" }

C8_ReadsIssuedInParallel ==
  \A r \in VaultReads : Before(r, "readResolved") = {}

\* C8 (amended): the vault-address reads of a build are issued one at a time
\* in recipient order: each read is issued only when every earlier read has
\* resolved, so at most one read is pending.
C8_ReadsIssuedSequentially ==
  /\ \A r \in VaultReads :
       /\ Cardinality(Before(r, "readResolved")) = Cardinality(Before(r, "readContract"))
       /\ Before(r, "readRejected") = {}
  /\ Cardinality(VaultReads) <= Cardinality(EventsOf("readResolved")) + 1

C8_Witness ==
  /\ Cardinality(VaultReads) = 3
  /\ Cardinality(EventsOf("readResolved")) = 2
  /\ pc = "read"
  /\ net[2].ev = "readResolved"
  /\ net[3].ev = "readContract"

\* C9: the deploy transaction is submitted only after every vault-address
\* read of the call (one per recipient) has been issued and has resolved; no
\* read is pending or rejected when the submission is made.
C9_SubmitAfterAllReads ==
  \A w \in DeployWrites :
    /\ Cardinality(Before(w, "readContract")) = Len(recipientsNow)
    /\ Cardinality(Before(w, "readResolved")) = Len(recipientsNow)
    /\ Before(w, "readRejected") = {}
    /\ \A r \in EventsOf("readContract") : r < w

C9_Witness ==
  /\ pc = "write"
  /\ kind = "deploy"
  /\ Len(recipientsNow) = 3
  /\ Cardinality(EventsOf("readResolved")) = 3
  /\ net[Len(net)].ev = "writeContract"

\* an amount of n * 1e-7 ETH in wei: n * 10^11
EthToWei(n) == IF n = 0 THEN <<0>> ELSE Digits(n) \o [i \in 1..11 |-> 0]

\* C10: the value attached to the deploy transaction is the launch buy's
\* ethAmount in wei when a launch buy is given, and zero otherwise.
C10_ValueIsDevBuyAmount ==
  \A w \in DeployWrites :
    net[w].value = IF options.devBuy = Absent
                     THEN <<0>>
                     ELSE EthToWei(options.devBuy[1].ethAmount)

C10_Witness ==
  /\ DeployWrites # {}
  /\ options.devBuy # Absent
  /\ options.devBuy[1].ethAmount = 5000000
  /\ \A w \in DeployWrites :
       net[w].value = <<5, 0, 0, 0, 0, 0, 0, 0, 0, 0, 0, 0, 0, 0, 0, 0, 0, 0>>

\* the launch buy of the call in progress is requested: devBuy is given with
\* a non-zero ethAmount
LaunchBuyRequested == options.devBuy # Absent /\ options.devBuy[1].ethAmount > 0

\* C11: in every deploy record submitted, the extension list is empty when no
\* launch buy is requested and otherwise holds exactly one entry, the dev-buy
\* extension, whose msgValue is the value attached to the call.
C11_ExtensionListMatchesDevBuy ==
  \A w \in DeployWrites :
    LET ext == net[w].args[1].extensionConfigs IN
    IF LaunchBuyRequested
      THEN /\ Len(ext) = 1
           /\ ext[1].extension = DEV_BUY_EXTENSION
           /\ ext[1].msgValue = net[w].value
           /\ ext[1].msgValue = EthToWei(options.devBuy[1].ethAmount)
      ELSE /\ ext = <<>>
           /\ net[w].value = <<0>>

C11_Witness ==
  /\ DeployWrites # {}
  /\ LaunchBuyRequested
  /\ options.devBuy[1].ethAmount = 12500000
  /\ \A w \in DeployWrites :
       /\ Len(net[w].args[1].extensionConfigs) = 1
       /\ net[w].args[1].extensionConfigs[1].msgValue = net[w].value
       /\ Len(net[w].value) = 19

\* C12: the extension entry of a launch buy encodes the caller's
\* devBuy.amountOutMin as its minimum-tokens-out.
C12_ExtensionCarriesAmountOutMin ==
  \A w \in DeployWrites :
    (LaunchBuyRequested /\ options.devBuy[1].amountOutMin # Absent)
      => /\ Len(net[w].args[1].extensionConfigs) = 1
         /\ net[w].args[1].extensionConfigs[1].extensionData.amountOutMinimum
              = options.devBuy[1].amountOutMin[1]

\* ------------------------------------------------------------------------
\* Failures of the collaborator
\* ------------------------------------------------------------------------
Rejections == EventsOf("readRejected") \cup EventsOf("writeRejected")

\* C13: in every operation, when a readContract or a writeContract rejects,
\* the operation returns (it does not go on) a result whose error is exactly
\* the error the collaborator raised, whose txHash is "0x" and whose
\* waitForTransaction throws that same error; and a returned result that
\* holds an error after a collaborator call was made holds that call's error.
C13_FailureReturnedUnchanged ==
  /\ \A i \in Rejections :
       /\ pc = "done"
       /\ result.error = net[i].error
       /\ result.txHash = "0x"
       /\ result.waitForTransaction.throws = net[i].error
  /\ (pc = "done" /\ net # <<>> /\ Rejections = {}) => result.error \in {NoError, InvalidDecimalNumberError}

C13_Witness ==
  /\ kind = "finalize"
  /\ pc = "done"
  /\ Len(net) = 2
  /\ net[2].ev = "writeRejected"
  /\ net[2].error = Err("Network error", <<>>)
  /\ result = Failure(Err("Network error", <<>>), Err("Network error", <<>>))

\* C14: a call holds at most one rejection and it is the last thing that
\* happens in the call: after a rejected read no further read and no
\* writeContract is issued, and a writeContract is issued at most once per
\* call whether it resolves or rejects.
C14_NoRetry ==
  /\ \A i \in Rejections : i = Len(net) /\ pc = "done"
  /\ Cardinality(Rejections) <= 1
  /\ Cardinality(EventsOf("writeContract")) <= 1
  /\ EventsOf("readRejected") # {} => EventsOf("writeContract") = {}
  /\ \A i \in EventsOf("readRejected") :
       Cardinality(Before(i, "readContract")) = Cardinality(Before(i, "readResolved")) + 1

C14_Witness ==
  /\ kind = "deploy"
  /\ pc = "done"
  /\ Len(recipientsNow) = 3
  /\ Len(net) = 4
  /\ net[4].ev = "readRejected"
  /\ EventsOf("writeContract") = {}

\* ------------------------------------------------------------------------
\* Tokenization of an existing token
\* ------------------------------------------------------------------------
InitWrites ==
  { i \in EventsOf("writeContract") : net[i].functionName = "initTokenization" }
FinalizeWrites ==
  { i \in EventsOf("writeContract") : net[i].functionName = "finalizeTokenization" }

\* C15: an initTokenization request whose bps do not sum to 10000, or which
\* has more than 7 recipients, is rejected with the validation error before
\* anything is submitted.
C15_InitFullyValidated ==
  (kind = "init" /\ (BpsSum(recipientsNow) # 10000 \/ Len(recipientsNow) > 7))
    => /\ net = <<>>
       /\ pc = "done"
       /\ result.error \in {SplitError(BpsSum(recipientsNow)), CountError}

\* C16: a validated initTokenization call submits exactly the function
\* "initTokenization", to V4_TOKENIZER when the version is "v4" and to
\* V3_1_0_TOKENIZER when it is "v3.1.0", with the existing token's address
\* as the first argument.
C16_InitTargetsVersionedTokenizer ==
  /\ (kind = "init" /\ net # <<>>) => InitWrites = {1}
  /\ kind # "init" => InitWrites = {}
  /\ \A w \in InitWrites :
       /\ options.version = "v4" => net[w].address = V4_TOKENIZER
       /\ options.version = "v3.1.0" => net[w].address = V3_1_0_TOKENIZER
       /\ net[w].args[1] = options.clankerToken
       /\ Len(net[w].args) = 2

C16_Witness ==
  /\ kind = "init"
  /\ options.version = "v3.1.0"
  /\ InitWrites = {1}
  /\ net[1].address = V3_1_0_TOKENIZER
  /\ net[1].address # V4_TOKENIZER
  /\ net[1].args[1] = options.clankerToken

\* C17: a finalizeTokenization call submits the function
\* "finalizeTokenization" to V4_TOKENIZER with the arguments in the order the
\* ABI declares them: the pending id first, the token second.
C17_FinalizeArgsInAbiOrder ==
  /\ kind = "finalize" => FinalizeWrites = {1}
  /\ \A w \in FinalizeWrites :
       /\ net[w].address = V4_TOKENIZER
       /\ net[w].args = <<options.pendingId, options.clankerToken>>

\* the 0/1/2 code of a fee-token preference
TokenCode(token) ==
  IF token = "Both" THEN 0 ELSE IF token = "Paired" THEN 1 ELSE 2

\* C18: the first argument of the submitted deployment carries, under
\* rewards.recipients, one entry per recipient in input order whose token is
\* the 0/1/2 code of that recipient's fee-token preference.
C18_DeployRecordCarriesTokenCodes ==
  \A w \in DeployWrites :
    /\ "rewards" \in DOMAIN net[w].args[1]
    /\ Len(net[w].args[1].rewards.recipients) = Len(recipientsNow)
    /\ \A i \in 1..Len(recipientsNow) :
         net[w].args[1].rewards.recipients[i].token = TokenCode(recipientsNow[i].token)

\* ------------------------------------------------------------------------
\* The tokenization protocol across calls
\* ------------------------------------------------------------------------
FinalizeEntries == { i \in DOMAIN history : history[i].op = "finalizeTokenization" }
InitEntries == { i \in DOMAIN history : history[i].op = "initTokenization" }
thisFinalize ==
  [op |-> "finalizeTokenization", address |-> V4_TOKENIZER,
   token |-> options.clankerToken, pendingId |-> options.pendingId]

\* C19 (as stated): over any sequence of calls, a finalize transaction is
\* submitted at most once for a (pendingId, token) handle, and only after an
\* initialize was submitted for that token.
C19_HandleConsumedOnce ==
  \A i \in FinalizeEntries :
    /\ \E j \in InitEntries : j < i /\ history[j].token = history[i].token
    /\ \A k \in FinalizeEntries :
         (history[k].token = history[i].token /\ history[k].pendingId = history[i].pendingId)
           => k = i

\* C19 (amended): every finalizeTokenization call submits one finalize
\* transaction for the (pendingId, token) it is given, whatever was submitted
\* before: the instance keeps no record of handles, so a handle no initialize
\* produced, or one already finalized, is submitted all the same.
C19_EveryFinalizeCallSubmits ==
  kind = "finalize" =>
    /\ FinalizeWrites = {1}
    /\ Cardinality(EventsOf("writeContract")) = 1
    /\ history # <<>>
    /\ history[Len(history)] = thisFinalize

C19_Witness ==
  /\ kind = "finalize"
  /\ InitEntries = {}
  /\ Len(history) = 2
  /\ history[1] = thisFinalize
  /\ history[2] = thisFinalize
  /\ FinalizeWrites = {1}

\* C20: finalizeTokenization submits the finalize transaction whether or not
\* the fee admin was handed over, and when the submission is rejected the
\* result's error is the rejection itself.
C20_FinalizeSubmitsWithoutHandoverCheck ==
  kind = "finalize" =>
    /\ net # <<>>
    /\ net[1] = [ev |-> "writeContract", address |-> V4_TOKENIZER,
                 functionName |-> "finalizeTokenization",
                 args |-> net[1].args, value |-> Absent]
    /\ \A i \in EventsOf("writeRejected") :
         /\ pc = "done"
         /\ result.error = net[i].error
         /\ result.waitForTransaction.throws = net[i].error

C20_Witness ==
  /\ kind = "finalize"
  /\ options.clankerToken \notin handedOver
  /\ Len(net) = 2
  /\ net[2] = [ev |-> "writeRejected", error |-> Err(ContractRevert, <<>>)]
  /\ result.error = Err(ContractRevert, <<>>)

\* ------------------------------------------------------------------------
\* Pool geometry and vesting vault
\* ------------------------------------------------------------------------
RECURSIVE PositionBpsSum(_)
PositionBpsSum(ps) == IF ps = <<>> THEN 0 ELSE Head(ps).positionBps + PositionBpsSum(Tail(ps))

CustomPositionsGiven == options.pool # Absent /\ options.pool[1].positions # Absent
customPositionsNow == options.pool[1].positions[1]

\* the starting tick the caller configured, or the default one
StartTickNow ==
  IF options.pool # Absent /\ options.pool[1].tickIfToken0IsClanker # Absent
    THEN options.pool[1].tickIfToken0IsClanker[1]
    ELSE 0 - 230400

GeometryInvalid ==
  /\ kind = "deploy"
  /\ CustomPositionsGiven
  /\ \/ PositionBpsSum(customPositionsNow) # 10000
     \/ \E i \in DOMAIN customPositionsNow :
          customPositionsNow[i].tickLower >= customPositionsNow[i].tickUpper
     \/ \E i \in DOMAIN customPositionsNow :
          StartTickNow > customPositionsNow[i].tickLower

\* C21: a deployment with custom liquidity positions whose positionBps do not
\* sum to 10000, or with a position whose tickLower >= tickUpper, or whose
\* starting tick is above the lowest tickLower, is rejected with
\* InvalidPoolGeometry and nothing is read or submitted.
C21_InvalidGeometryRejected ==
  GeometryInvalid =>
    /\ net = <<>>
    /\ pc = "done"
    /\ result.error = Err("InvalidPoolGeometry", <<>>)

VaultConfigInvalid ==
  /\ kind = "deploy"
  /\ options.vault # Absent
  /\ ~ /\ 0 < options.vault[1].percentage
       /\ options.vault[1].percentage <= 100
       /\ options.vault[1].lockupDuration >= 604800

\* C22: a deployment with a vesting vault whose percentage is not in (0, 100]
\* or whose lockup is shorter than 604800 seconds is rejected with
\* InvalidVaultConfig and nothing is submitted.
C22_InvalidVaultRejected ==
  VaultConfigInvalid =>
    /\ DeployWrites = {}
    /\ pc = "done"
    /\ result.error = Err("InvalidVaultConfig", <<>>)

RECURSIVE SeqSum(_)
SeqSum(q) == IF q = <<>> THEN 0 ELSE Head(q) + SeqSum(Tail(q))

UsesPreset ==
  \/ ~CustomPositionsGiven
  \/ customPositionsNow \in {POOL_POSITIONS.Standard, POOL_POSITIONS.Project, POOL_POSITIONS.Legacy}

\* C23: a deployment that takes its positions from a shipped preset (Standard
\* by default, Project, Legacy) submits positionBps that sum to 10000 and
\* ticks with tickLower < tickUpper that are all multiples of the tickSpacing
\* of the submitted pool config.
C23_PresetsSatisfyPositionInvariant ==
  \A w \in DeployWrites :
    UsesPreset =>
      LET lc == net[w].args[1].lockerConfig
          spacing == net[w].args[1].poolConfig.tickSpacing
      IN /\ spacing = 200
         /\ SeqSum(lc.positionBps) = 10000
         /\ \A i \in DOMAIN lc.tickLower :
              /\ lc.tickLower[i] < lc.tickUpper[i]
              /\ lc.tickLower[i] % spacing = 0
              /\ lc.tickUpper[i] % spacing = 0

\* ------------------------------------------------------------------------
\* The shape of the deploy record
\* ------------------------------------------------------------------------
\* the events of one kind that precede event k, in order
SeqBefore(k, ev) == SelectSeq(SubSeq(net, 1, k - 1), LAMBDA e : e.ev = ev)

PreferenceName(token) ==
  IF token = "Both" THEN "FeePreference.Both"
  ELSE IF token = "Paired" THEN "FeePreference.Paired" ELSE "FeePreference.Clanker"

\* C25: in every submitted deployment built from n recipients, rewardBps,
\* rewardAdmins, rewardRecipients, the preferences in lockerData and
\* shareRecipients all have length n, and at every index i they hold recipient
\* i's bps, the vault resolved by the i-th read (made for recipient i's
\* preference), recipient i's preference, and recipient i's own address.
C25_SequencesIndexAligned ==
  \A w \in DeployWrites :
    LET lc == net[w].args[1].lockerConfig
        share == net[w].args[2]
        reads == SeqBefore(w, "readContract")
        resolved == SeqBefore(w, "readResolved")
        n == Len(recipientsNow)
    IN /\ Len(lc.rewardBps) = n
       /\ Len(lc.rewardAdmins) = n
       /\ Len(lc.rewardRecipients) = n
       /\ Len(lc.lockerData[2]) = n
       /\ Len(share) = n
       /\ Len(reads) = n
       /\ Len(resolved) = n
       /\ \A i \in 1..n :
            /\ lc.rewardBps[i] = recipientsNow[i].bps
            /\ lc.lockerData[2][i] = PreferenceName(recipientsNow[i].token)
            /\ reads[i].args[3] = PreferenceName(recipientsNow[i].token)
            /\ lc.rewardAdmins[i] = resolved[i].value
            /\ lc.rewardRecipients[i] = resolved[i].value
            /\ share[i] = recipientsNow[i].recipient

C25_Witness ==
  /\ DeployWrites # {}
  /\ Len(recipientsNow) = 3
  /\ recipientsNow[1].bps # recipientsNow[3].bps
  /\ recipientsNow[1].token # recipientsNow[2].token
  /\ recipientsNow[2].token # recipientsNow[3].token
  /\ recipientsNow[1].recipient # recipientsNow[2].recipient
  /\ \A w \in DeployWrites : net[w].args[1].lockerConfig.rewardBps[3] = recipientsNow[3].bps

\* C26: in one build, the nonce in tokenConfig.salt is the nonce of the deploy
\* salt hash(admin, nonce) inside the predicted token address, the admin of
\* that hash is tokenConfig.tokenAdmin, and every vault-address read is made
\* for that one predicted address and for poolConfig.pairedToken.
C26_PredictionMatchesRecord ==
  /\ \A i, j \in EventsOf("readContract") :
       /\ net[i].args[1] = net[j].args[1]
       /\ net[i].args[2] = net[j].args[2]
  /\ \A w \in DeployWrites :
       LET tc == net[w].args[1].tokenConfig IN
       \A i \in EventsOf("readContract") :
         /\ net[i].args[1][1] = "create2"
         /\ net[i].args[1][3] = <<"keccak256", tc.tokenAdmin, tc.salt>>
         /\ net[i].args[1][4] = <<"initCodeHash", tc.name, tc.symbol, tc.tokenAdmin, tc.image>>
         /\ net[i].args[2] = net[w].args[1].poolConfig.pairedToken

C26_Witness ==
  /\ DeployWrites # {}
  /\ Cardinality(EventsOf("readContract")) = 2
  /\ \A w \in DeployWrites :
       /\ net[w].args[1].tokenConfig.salt = "nonce2"
       /\ net[w].args[1].tokenConfig.tokenAdmin = <<"eoa", "deployer">>
       /\ net[w].args[1].poolConfig.pairedToken = <<"contract", "USDC">>
       /\ net[1].args[2] = <<"contract", "USDC">>
       /\ net[1].args[1][3] = <<"keccak256", <<"eoa", "deployer">>, "nonce2">>

\* ------------------------------------------------------------------------
\* Fields of the options that the deployment does not use
\* ------------------------------------------------------------------------
\* the options with fees, vault, vanity, devBuy.amountOutMin and the
\* recipients' admin addresses replaced by fixed values
CoreOf(o) ==
  [o EXCEPT
     !.fees = Absent,
     !.vault = Absent,
     !.vanity = Absent,
     !.devBuy = IF o.devBuy = Absent THEN Absent
                ELSE Some([o.devBuy[1] EXCEPT !.amountOutMin = Absent]),
     !.rewards = [recipients |->
                    [i \in 1..Len(o.rewards.recipients) |->
                       [o.rewards.recipients[i] EXCEPT !.admin = <<"eoa", "nobody">>]]]]

FlowInitOf(i) ==
  { j \in InitEntries :
      /\ j < i
      /\ history[j].token = history[i].token
      /\ \A k \in InitEntries : (k < i /\ history[k].token = history[i].token) => k <= j }

\* C28: in every flow, the finalize transaction goes to the tokenizer address
\* the flow's initialize transaction went to, for "v4" and for "v3.1.0".
C28_FinalizeTargetsInitTokenizer ==
  \A i \in FinalizeEntries :
    \A j \in FlowInitOf(i) : history[i].address = history[j].address

\* ------------------------------------------------------------------------
\* Confirmation of the submitted transaction
\* ------------------------------------------------------------------------
ReceiptsWith(st) ==
  { i \in EventsOf("receiptResolved") : net[i].status = st }

\* C29: waitForTransaction() of a returned result resolves only if the
\* receipt of the transaction reports success; when the receipt reports a
\* revert, or waiting for it fails, waitForTransaction() fails.
C29_RevertNeverReportedAsSuccess ==
  /\ waited.state = "resolved" => ReceiptsWith("success") # {}
  /\ ReceiptsWith("reverted") # {} => waited.state = "rejected"
  /\ EventsOf("receiptRejected") # {} => waited.state = "rejected"

\* ------------------------------------------------------------------------
\* getVaultInfo
\* ------------------------------------------------------------------------
InfoEvents(ev) == { k \in DOMAIN info.log : info.log[k].ev = ev }
\* the value the read of function f resolved with
ResolvedValue(f) ==
  { info.log[k].value : k \in { j \in InfoEvents("readResolved") : InfoReads[info.log[j].of] = f } }

\* C24: getVaultInfo issues its three reads on the queried vault before any
\* of them settles; when all resolve, in whatever order, it returns the
\* queried address and in each field the value of the read of that name;
\* when a read rejects it fails with the first rejection and returns nothing.
C24_VaultInfoFromOwnReads ==
  info.pc # "idle" =>
    /\ Len(info.log) >= 3
    /\ \A i \in 1..3 :
         info.log[i] = [ev |-> "readContract", address |-> info.address,
                        functionName |-> InfoReads[i]]
    /\ info.out.state = "none" <=> info.pc = "reads"
    /\ info.out.state = "resolved" =>
         /\ InfoEvents("readRejected") = {}
         /\ info.out.value.address = info.address
         /\ ResolvedValue("sharesToken") = {info.out.value.sharesToken}
         /\ ResolvedValue("clankerToken") = {info.out.value.clankerToken}
         /\ ResolvedValue("pairedToken") = {info.out.value.pairedToken}
    /\ InfoEvents("readRejected") # {} =>
         /\ info.out.state = "rejected"
         /\ \E k \in InfoEvents("readRejected") :
              /\ \A j \in InfoEvents("readRejected") : k <= j
              /\ info.out.error = info.log[k].error

C24_Witness ==
  /\ info.pc = "done"
  /\ info.out.state = "resolved"
  /\ Len(info.log) = 6
  /\ info.log[4].of = 3
  /\ info.log[5].of = 2
  /\ info.log[6].of = 1
  /\ info.out.value.clankerToken # info.out.value.pairedToken
  /\ info.out.value.pairedToken = info.log[4].value

\* ------------------------------------------------------------------------
\* Calls in flight at once
\* ------------------------------------------------------------------------
OwnEvents(c, ev) == SelectSeq(calls[c].net, LAMBDA e : e.ev = ev)

\* C30: with two deployments in flight and their reads and submissions
\* interleaved in any order, each call's reads, submitted record, attached
\* value and result are those a call running alone makes from its own input,
\* its own nonce and the answers to its own reads and submission.
C30_CallsShareNoState ==
  \A c \in DOMAIN calls :
    LET me == calls[c]
        reads == OwnEvents(c, "readContract")
        resolved == OwnEvents(c, "readResolved")
        writes == OwnEvents(c, "writeContract")
        vaults == [i \in 1..Len(resolved) |-> resolved[i].value]
    IN /\ \A i \in 1..Len(reads) : reads[i] = VaultRead(me.options, me.salt, i)
       /\ \A i \in 1..Len(resolved) : resolved[i].value = FactoryVault(reads[i].args)
       /\ Len(writes) <= 1
       /\ \A i \in 1..Len(writes) :
            /\ writes[i] = DeployWrite(me.options,
                                       BuildDeployParams(me.options, me.salt, vaults))
            /\ writes[i].args[1].tokenConfig.salt = me.salt
            /\ writes[i].args[1].tokenConfig.tokenAdmin = me.options.tokenAdmin
            /\ Len(writes[i].args[2]) = Len(me.options.rewards.recipients)
       /\ (me.pc = "done" /\ me.net # <<>>) =>
            LET last == me.net[Len(me.net)] IN
            /\ last.ev = "writeResolved" => me.result = Success(last.hash)
            /\ last.ev \in {"readRejected", "writeRejected"}
                 => me.result = Failure(last.error, last.error)

C30_Witness ==
  /\ DOMAIN calls = 1..2
  /\ calls[1].pc = "write"
  /\ calls[2].pc = "read"
  /\ Len(calls[2].vaultAddresses) = 1
  /\ Len(calls[2].options.rewards.recipients) = 2
  /\ calls[1].salt # calls[2].salt
  /\ calls[1].options.tokenAdmin # calls[2].options.tokenAdmin
  /\ Len(calls[1].options.rewards.recipients) = 2


============================================================================
